---- MODULE Spec2Model ----
(***************************************************************************)
(* Model of the GitHub -> MongoDB ingestion pipeline of                     *)
(* github_mongodb_app.py: GitHubAPIClient (rate-limited fetcher and the     *)
(* paginated walks), MongoDBManager (the store_* upserts) and               *)
(* GitHubDataCollector.collect_all_data (the orchestrator).                 *)
(*                                                                         *)
(* Documents are functions from field names to naturals.  A collection is   *)
(* the sequence of its documents in insertion order.                        *)
(***************************************************************************)
EXTENDS Integers, Sequences, FiniteSets, TLC

\* ---------------------------------------------------------------- bounds
\* page size used by the pipeline walks (stands for per_page = 100)
PerPage == 2
\* page size the server applies when a request names none (stands for 30)
DefaultPageSize == 2
\* the clock ticks on its own only below this value
MaxTime == 2
\* number of ingestion runs started
MaxRuns == 2
\* number of times the source changes
MaxSourceChanges == 1
\* store alone: number of store_* calls, and longest batch
MaxDirectCalls == 2
MaxBatch == 2
\* fetcher alone: number of calls of _make_request
MaxFetches == 4
\* walker alone: longest script of pages
MaxPages == 3

\* requests_per_hour of GitHubConfig and the one-hour default reset
requests_per_hour == 5000
HourSecs == 3600

\* python None; an optional argument that is None or 0 is falsy alike
None == 0

Min(a, b) == IF a < b THEN a ELSE b
Max(a, b) == IF a > b THEN a ELSE b

\* ------------------------------------------------------------ documents
Has(d, f) == f \in DOMAIN d

\* python: d[f] = v
SetField(d, f, v) == [g \in DOMAIN d \cup {f} |-> IF g = f THEN v ELSE d[g]]

\* MongoDB {'$set': s} applied to document d: fields of s overwrite or are
\* added, every other field of d stays
ApplySet(d, s) == [g \in DOMAIN d \cup DOMAIN s |-> IF g \in DOMAIN s THEN s[g] ELSE d[g]]

\* MongoDB equality filter
Matches(d, filter) == \A g \in DOMAIN filter : g \in DOMAIN d /\ d[g] = filter[g]

FirstMatch(coll, filter) ==
  IF \E i \in 1..Len(coll) : Matches(coll[i], filter)
  THEN CHOOSE i \in 1..Len(coll) :
         /\ Matches(coll[i], filter)
         /\ \A j \in 1..(i-1) : ~Matches(coll[j], filter)
  ELSE 0

\* update_one without upsert=True: a missing document is not created
update_one_noupsert(coll, filter, s) ==
  LET i == FirstMatch(coll, filter)
  IN IF i = 0 THEN coll ELSE [coll EXCEPT ![i] = ApplySet(coll[i], s)]

\* the write replaces the content of the collection
update_one_replace_all(coll, filter, s) == << ApplySet(filter, s) >>

\* a plain insert in place of the upsert
update_one_insert(coll, filter, s) == Append(coll, ApplySet(filter, s))

\* collection.update_one(filter, {'$set': s}, upsert=True)
update_one(coll, filter, s) ==
  LET i == FirstMatch(coll, filter)
  IN IF i = 0 THEN Append(coll, ApplySet(filter, s))
     ELSE [coll EXCEPT ![i] = ApplySet(coll[i], s)]

\* a collected_at supplied in the record is kept
_add_timestamp_keep(document, t) ==
  IF Has(document, "collected_at") THEN document
  ELSE SetField(document, "collected_at", t)

\* MongoDBManager._add_timestamp, with the clock reading t
_add_timestamp(document, t) == SetField(document, "collected_at", t)

\* a document without its collection timestamp
Strip(d) == [f \in DOMAIN d \ {"collected_at"} |-> d[f]]

\* a collection without the collected_at of its documents
Unstamped(coll) == [i \in 1..Len(coll) |-> Strip(coll[i])]

\* str(repo['id'])
Str(n) == <<"str", n>>

\* the clock reading at the i-th record of a batch
StampAt(t, dt, i) == t + dt * (i - 1)

\* --------------------------------------------------------- store_* loops
\* Each operator runs the loop of the store_* method over records 1..n of
\* the batch, on collection coll, and yields the collection and the key list.

RECURSIVE RepoLoop(_, _, _, _, _)
RepoLoop(coll, repositories, n, t, dt) ==
  IF n = 0 THEN [coll |-> coll, ids |-> <<>>]
  ELSE LET prev == RepoLoop(coll, repositories, n - 1, t, dt)
           repo == _add_timestamp(repositories[n], StampAt(t, dt, n))
       IN [coll |-> update_one(prev.coll, [id |-> repo["id"]], repo),
           ids  |-> Append(prev.ids, Str(repo["id"]))]

store_repositories(coll, repositories, t, dt) ==
  RepoLoop(coll, repositories, Len(repositories), t, dt)

RECURSIVE CommitLoop(_, _, _, _, _, _)
CommitLoop(coll, repository_id, commits, n, t, dt) ==
  IF n = 0 THEN [coll |-> coll, ids |-> <<>>]
  ELSE LET prev == CommitLoop(coll, repository_id, commits, n - 1, t, dt)
           commit == SetField(_add_timestamp(commits[n], StampAt(t, dt, n)),
                              "repository_id", repository_id)
       IN [coll |-> update_one(prev.coll,
                               [sha |-> commit["sha"], repository_id |-> repository_id],
                               commit),
           ids  |-> Append(prev.ids, commit["sha"])]

store_commits(coll, repository_id, commits, t, dt) ==
  CommitLoop(coll, repository_id, commits, Len(commits), t, dt)

RECURSIVE ContributorLoop(_, _, _, _, _, _)
ContributorLoop(coll, repository_id, contributors, n, t, dt) ==
  IF n = 0 THEN [coll |-> coll, ids |-> <<>>]
  ELSE LET prev == ContributorLoop(coll, repository_id, contributors, n - 1, t, dt)
           contributor == SetField(_add_timestamp(contributors[n], StampAt(t, dt, n)),
                                   "repository_id", repository_id)
       IN [coll |-> update_one(prev.coll,
                               [login |-> contributor["login"],
                                repository_id |-> repository_id],
                               contributor),
           ids  |-> Append(prev.ids, contributor["login"])]

store_contributors(coll, repository_id, contributors, t, dt) ==
  ContributorLoop(coll, repository_id, contributors, Len(contributors), t, dt)

RECURSIVE PullRequestLoop(_, _, _, _, _, _)
PullRequestLoop(coll, repository_id, pull_requests, n, t, dt) ==
  IF n = 0 THEN [coll |-> coll, ids |-> <<>>]
  ELSE LET prev == PullRequestLoop(coll, repository_id, pull_requests, n - 1, t, dt)
           pr == SetField(_add_timestamp(pull_requests[n], StampAt(t, dt, n)),
                          "repository_id", repository_id)
       IN [coll |-> update_one(prev.coll, [id |-> pr["id"]], pr),
           ids  |-> Append(prev.ids, pr["number"])]

store_pull_requests(coll, repository_id, pull_requests, t, dt) ==
  PullRequestLoop(coll, repository_id, pull_requests, Len(pull_requests), t, dt)

\* no record is taken for a pull request
IsPullRequestShaped_never(issue) == FALSE

\* 'pull_request' in issue
IsPullRequestShaped(issue) == Has(issue, "pull_request")

RECURSIVE IssueLoop(_, _, _, _, _, _)
IssueLoop(coll, repository_id, issues, n, t, dt) ==
  IF n = 0 THEN [coll |-> coll, ids |-> <<>>]
  ELSE LET prev == IssueLoop(coll, repository_id, issues, n - 1, t, dt)
       IN IF IsPullRequestShaped(issues[n]) THEN prev
          ELSE LET issue == SetField(_add_timestamp(issues[n], StampAt(t, dt, n)),
                                     "repository_id", repository_id)
               IN [coll |-> update_one(prev.coll, [id |-> issue["id"]], issue),
                   ids  |-> Append(prev.ids, issue["number"])]

store_issues(coll, repository_id, issues, t, dt) ==
  IssueLoop(coll, repository_id, issues, Len(issues), t, dt)

\* the fields store_comments injects: python truthiness of the two optional
\* arguments decides which of issue_id / pull_request_id is set
TagComment(comment, repository_id, issue_id, pull_request_id) ==
  LET c1 == SetField(comment, "repository_id", repository_id)
      c2 == IF issue_id # None THEN SetField(c1, "issue_id", issue_id) ELSE c1
  IN IF pull_request_id # None THEN SetField(c2, "pull_request_id", pull_request_id)
     ELSE c2

RECURSIVE CommentLoop(_, _, _, _, _, _, _, _)
CommentLoop(coll, repository_id, comments, issue_id, pull_request_id, n, t, dt) ==
  IF n = 0 THEN [coll |-> coll, ids |-> <<>>]
  ELSE LET prev == CommentLoop(coll, repository_id, comments, issue_id,
                               pull_request_id, n - 1, t, dt)
           comment == TagComment(_add_timestamp(comments[n], StampAt(t, dt, n)),
                                 repository_id, issue_id, pull_request_id)
       IN [coll |-> update_one(prev.coll, [id |-> comment["id"]], comment),
           ids  |-> Append(prev.ids, comment["id"])]

store_comments(coll, repository_id, comments, issue_id, pull_request_id, t, dt) ==
  CommentLoop(coll, repository_id, comments, issue_id, pull_request_id,
              Len(comments), t, dt)

\* ------------------------------------------------------------ the source
\* What the upstream API holds.  Repositories are addressed by name, issues
\* and pull requests by number.  commitsEmpty: repositories whose commit
\* list answers 409; contribMissing: repositories whose contributor list
\* answers 404.
NoList == <<>>

SrcA ==
  [repos |-> << [id |-> 10, name |-> 1] >>,
   commits |-> << << [sha |-> 1, message |-> 1], [sha |-> 2, message |-> 1] >>, NoList >>,
   commitsEmpty |-> {},
   contributors |-> << << [login |-> 1, contributions |-> 3] >>, NoList >>,
   contribMissing |-> {},
   pulls |-> << << [id |-> 30, number |-> 2, state |-> 1] >>, NoList >>,
   issues |-> << << [id |-> 20, number |-> 1, state |-> 1] >>, NoList >>,
   icomments |-> << <<1, 1, << [id |-> 40, body |-> 1], [id |-> 41, body |-> 1] >> >> >>,
   pcomments |-> << >>]

SrcB ==
  [repos |-> << [id |-> 10, name |-> 1], [id |-> 11, name |-> 2] >>,
   commits |-> << << [sha |-> 1, message |-> 1],
                     [sha |-> 2, message |-> 1, collected_at |-> 99],
                     [sha |-> 3, message |-> 1] >>,
                  NoList >>,
   commitsEmpty |-> {2},
   contributors |-> << << [login |-> 1, contributions |-> 3] >>, NoList >>,
   contribMissing |-> {2},
   pulls |-> << << [id |-> 30, number |-> 2, state |-> 1] >>, NoList >>,
   issues |-> << << [id |-> 20, number |-> 1, state |-> 1, labels |-> 1],
                    [id |-> 21, number |-> 2, state |-> 1, pull_request |-> 1] >>,
                 << [id |-> 22, number |-> 1, state |-> 1] >> >>,
   icomments |-> << <<1, 1, << [id |-> 40, body |-> 1] >> >>,
                    <<2, 1, << [id |-> 42, body |-> 1] >> >> >>,
   pcomments |-> << <<1, 2, << [id |-> 43, body |-> 2, path |-> 1] >> >> >>]

\* SrcB after commits, an issue label, a repository and comments went away
SrcC ==
  [repos |-> << [id |-> 10, name |-> 1] >>,
   commits |-> << << [sha |-> 1, message |-> 2] >>, NoList >>,
   commitsEmpty |-> {},
   contributors |-> << NoList, NoList >>,
   contribMissing |-> {1},
   pulls |-> << NoList, NoList >>,
   issues |-> << << [id |-> 20, number |-> 1, state |-> 2] >>, NoList >>,
   icomments |-> << >>,
   pcomments |-> << >>]

\* issue comments and pull request review comments are numbered by the
\* platform independently of each other: comment 40 exists in both lists
SrcD ==
  [repos |-> << [id |-> 10, name |-> 1] >>,
   commits |-> << NoList, NoList >>,
   commitsEmpty |-> {1},
   contributors |-> << NoList, NoList >>,
   contribMissing |-> {},
   pulls |-> << << [id |-> 30, number |-> 2, state |-> 1] >>, NoList >>,
   issues |-> << << [id |-> 20, number |-> 1, state |-> 1],
                    [id |-> 21, number |-> 2, state |-> 1, pull_request |-> 1] >>,
                 NoList >>,
   icomments |-> << <<1, 1, << [id |-> 40, body |-> 1] >> >> >>,
   pcomments |-> << <<1, 2, << [id |-> 40, body |-> 2, path |-> 1] >> >> >>]

\* an issue with more comments than the platform serves on one page
SrcE ==
  [repos |-> << [id |-> 10, name |-> 1] >>,
   commits |-> << NoList, NoList >>,
   commitsEmpty |-> {1},
   contributors |-> << NoList, NoList >>,
   contribMissing |-> {1},
   pulls |-> << NoList, NoList >>,
   issues |-> << << [id |-> 20, number |-> 1, state |-> 1] >>, NoList >>,
   icomments |-> << <<1, 1, [i \in 1..(DefaultPageSize + 1) |->
                               [id |-> 50 + i, body |-> 1]] >> >>,
   pcomments |-> << >>]

Sources == << SrcA, SrcB, SrcC, SrcD, SrcE >>

\* the source a source turns into when it changes: SrcA and SrcB into SrcC
Changed == << 3, 3 >>

\* the comment list held for (repository name, number), empty when none
CommentsOf(table, name, number) ==
  IF \E i \in 1..Len(table) : table[i][1] = name /\ table[i][2] = number
  THEN (CHOOSE e \in {table[i] : i \in 1..Len(table)} :
          e[1] = name /\ e[2] = number)[3]
  ELSE <<>>

\* page `page` of a list served in pages of pp items
PageOf(list, page, pp) ==
  IF (page - 1) * pp >= Len(list) THEN <<>>
  ELSE SubSeq(list, (page - 1) * pp + 1, Min(page * pp, Len(list)))

\* The request of each fetch: endpoint kind, repository name, issue or pull
\* request number, page and per_page (0: the request names no page).
Req(kind, name, number, page, pp) ==
  [kind |-> kind, name |-> name, number |-> number, page |-> page, per_page |-> pp]

ListOf(s, req) ==
  CASE req.kind = "repos"        -> s.repos
    [] req.kind = "commits"      -> s.commits[req.name]
    [] req.kind = "contributors" -> s.contributors[req.name]
    [] req.kind = "pulls"        -> s.pulls[req.name]
    [] req.kind = "issues"       -> s.issues[req.name]
    [] req.kind = "icomments"    -> CommentsOf(s.icomments, req.name, req.number)
    [] req.kind = "pcomments"    -> CommentsOf(s.pcomments, req.name, req.number)

\* status and body the source answers to a request when nothing goes wrong
SourceStatus(s, req) ==
  IF req.kind = "commits" /\ req.name \in s.commitsEmpty THEN 409
  ELSE IF req.kind = "contributors" /\ req.name \in s.contribMissing THEN 404
  ELSE 200

SourceBody(s, req) ==
  IF req.per_page = 0 THEN PageOf(ListOf(s, req), 1, DefaultPageSize)
  ELSE PageOf(ListOf(s, req), req.page, req.per_page)

\* ----------------------------------------------------------------- state
VARIABLES
  db,                    \* MongoDBManager.db: collection name -> documents
  now,                   \* the clock (time.time(), datetime.now())
  rate_limit_remaining,  \* GitHubAPIClient.rate_limit_remaining
  rate_limit_reset,      \* GitHubAPIClient.rate_limit_reset
  src,                   \* index in Sources of what the upstream API holds
  include_comments,      \* argument of collect_all_data
  pc,                    \* position in collect_all_data
  repositories,          \* local of collect_all_data
  ri,                    \* index of the repository being processed
  page,                  \* local of the running walk
  acc,                   \* list accumulated by the running walk
  fetched,               \* list returned by the last fetch, to be stored
  pr_ids,                \* local of collect_all_data
  issue_ids,             \* local of collect_all_data
  k,                     \* index in issue_ids / pr_ids of the comment loops
  reqPages,              \* pages requested by the running walk, in order
  lastReq,               \* the last call of _make_request and its outcome
  reqBit,                \* flips at every call of _make_request
  lastCall,              \* the last store_* call: operation, arguments, result
  callBit,               \* flips at every store_* call
  runs,                  \* runs started
  changes,               \* source changes
  aborted,               \* a run has failed
  swallowed,             \* the running run recovered from an injected status
  emptyRepos,            \* repositories of this run whose first commit page was 409
  script,                \* walker alone: the sizes of the pages served
  per_page,              \* walker alone: argument per_page
  calls,                 \* store alone: direct calls made
  directOp               \* store alone: the store_* operation called

vars == << db, now, rate_limit_remaining, rate_limit_reset, src, include_comments,
           pc, repositories, ri, page, acc, fetched, pr_ids, issue_ids, k,
           reqPages, lastReq, reqBit, lastCall, callBit, runs, changes, aborted,
           swallowed, emptyRepos, script, per_page, calls, directOp >>

storeVars == << db, lastCall, callBit >>
clientVars == << rate_limit_remaining, rate_limit_reset, lastReq, reqBit >>
localVars == << repositories, ri, page, acc, fetched, pr_ids, issue_ids, k, reqPages >>
runVars == << src, include_comments, runs, changes, swallowed, emptyRepos >>
aloneVars == << script, per_page, calls, directOp >>

Collections == {"repositories", "commits", "contributors", "pull_requests",
                "issues", "comments"}

EmptyDb == [c \in Collections |-> <<>>]

NoReq == [req |-> Req("none", 0, 0, 0, 0), status |-> 0, startNow |-> 0,
          startRemaining |-> 0, startReset |-> 0, sentAt |-> 0, raised |-> FALSE, attempts |-> 0,
          hdr |-> [has_remaining |-> FALSE, remaining |-> 0, has_reset |-> FALSE,
                   reset |-> 0]]

NoCall == [op |-> "none", repository_id |-> 0, batch |-> <<>>, issue_id |-> 0,
           pull_request_id |-> 0, failAt |-> 0, ids |-> <<>>, startedAt |-> 0,
           repeat |-> FALSE, retry |-> FALSE, before |-> <<>>]

\* -------------------------------------------------------------- fetcher
\* rate-limit headers of a response; has_* FALSE: the header is missing
Hdr(hasRem, rem, hasReset, reset) ==
  [has_remaining |-> hasRem, remaining |-> rem, has_reset |-> hasReset, reset |-> reset]

\* status 0 stands for a transport failure: no response at all
TransportFailure == 0

\* the wait starts only once the quota is used up entirely
_check_rate_limit_zero(remaining, reset, t) ==
  IF remaining <= 0 THEN Max(t, reset) ELSE t

\* _check_rate_limit: the time at which the caller goes on
_check_rate_limit(remaining, reset, t) ==
  IF remaining <= 1
  THEN LET sleep_time == Max(0, reset - t)
       IN IF sleep_time > 0 THEN t + sleep_time ELSE t
  ELSE t

\* response.raise_for_status() or a failed session.get
Raises(status) == status = TransportFailure \/ status >= 400

\* a request that fails is sent once more
Attempts_retry(status) == IF Raises(status) THEN 2 ELSE 1

\* HTTP requests sent by one call: session.get is called once, outside any
\* loop, on a session without a retry adapter
Attempts(status) == 1

\* the rate-limit state is taken from the headers of a successful response only
RemainingAfter_onsuccess(status, hdr, old) ==
  IF Raises(status) THEN old
  ELSE IF hdr.has_remaining THEN hdr.remaining ELSE 0

\* a response without the header is taken for a full quota
RemainingAfter_full(status, hdr, old) ==
  IF status = TransportFailure THEN old
  ELSE IF hdr.has_remaining THEN hdr.remaining ELSE requests_per_hour

\* int(response.headers.get('X-RateLimit-Remaining', 0)); session.get that
\* raises leaves the attribute as it was
RemainingAfter(status, hdr, old) ==
  IF status = TransportFailure THEN old
  ELSE IF hdr.has_remaining THEN hdr.remaining ELSE 0

\* int(response.headers.get('X-RateLimit-Reset', time.time() + 3600))
ResetAfter(status, hdr, old, t) ==
  IF status = TransportFailure THEN old
  ELSE IF hdr.has_reset THEN hdr.reset ELSE t + HourSecs

\* _make_request: wait, send one request, take the rate-limit state from
\* the response headers
_make_request(req, status, hdr) ==
  LET sendAt == _check_rate_limit(rate_limit_remaining, rate_limit_reset, now)
  IN /\ now' = sendAt
     /\ rate_limit_remaining' = RemainingAfter(status, hdr, rate_limit_remaining)
     /\ rate_limit_reset' = ResetAfter(status, hdr, rate_limit_reset, sendAt)
     /\ lastReq' = [req |-> req, status |-> status, startNow |-> now,
                    startRemaining |-> rate_limit_remaining,
                    startReset |-> rate_limit_reset, sentAt |-> sendAt,
                    raised |-> Raises(status), attempts |-> Attempts(status),
                    hdr |-> hdr]
     /\ reqBit' = 1 - reqBit

\* the walk stops at an empty page only
WalkDone_empty(data, pp) == data = <<>>

\* the walk never moves to the next page
WalkPage_stuck(p, data) == p

\* one pass of the loop body of a walk, after the response `data`
WalkDone(data, pp) == data = <<>> \/ Len(data) < pp
WalkAcc(list, data) == list \o data
WalkPage(p, data) == IF data = <<>> THEN p ELSE p + 1

\* --------------------------------------------------------- orchestrator
\* statuses a request can be answered with instead of the source's answer
Injected == {404, 409, 500, TransportFailure}

\* rate-limit headers served during a run
RunHeaders == { Hdr(TRUE, 4999, TRUE, HourSecs) }

StatusOf(req, inj) == IF inj = 200 THEN SourceStatus(Sources[src], req) ELSE inj

\* the loop takes the repositories from the end of the list
Repo_last == repositories[Len(repositories) + 1 - ri]

\* for repo in repositories: the repository of the current iteration
Repo == repositories[ri]

\* the exception is swallowed and the run ends as if complete
Raise_swallow ==
  /\ pc' = "done"
  /\ UNCHANGED aborted

\* the exception leaves collect_all_data and main
Raise ==
  /\ pc' = "failed"
  /\ aborted' = TRUE

\* where collect_all_data goes on after the repository ri
NextRepoPc == IF ri < Len(repositories) THEN "get_commits" ELSE "done"
NextRepoRi == IF ri < Len(repositories) THEN ri + 1 ELSE ri

StartRun ==
  /\ pc \in {"idle", "done", "failed"}
  /\ runs < MaxRuns
  /\ runs' = runs + 1
  /\ pc' = "get_repositories"
  \* main builds a new GitHubAPIClient for the run
  /\ rate_limit_remaining' = requests_per_hour
  /\ rate_limit_reset' = now + HourSecs
  /\ repositories' = <<>> /\ ri' = 0 /\ page' = 1 /\ acc' = <<>> /\ fetched' = <<>>
  /\ pr_ids' = <<>> /\ issue_ids' = <<>> /\ k' = 0 /\ reqPages' = <<>>
  /\ swallowed' = FALSE /\ emptyRepos' = {}
  /\ lastReq' = NoReq /\ lastCall' = NoCall
  /\ UNCHANGED << db, now, reqBit, callBit, src, include_comments,
                  changes, aborted, aloneVars >>

\* the commit walk takes every HTTP error for an empty repository
IsEmptyRepository_any(status) == TRUE

\* the empty repository is looked for under the wrong status
IsEmptyRepository_404(status) == status = 404

\* e.response.status_code == 409 in get_commits
IsEmptyRepository(status) == status = 409

\* the contributor list is looked for under the wrong status
IsNotFound_409(status) == status = 409

\* e.response.status_code == 404 in get_contributors
IsNotFound(status) == status = 404

\* one page request of a paginated walk of the run; recover409: the walk
\* catches HTTP 409 (get_commits)
WalkRequest(kind, name, recover409, donePc) ==
  \E inj \in {200} \cup Injected, hdr \in RunHeaders :
    LET req == Req(kind, name, 0, page, PerPage)
        status == StatusOf(req, inj)
        data == SourceBody(Sources[src], req)
    IN /\ _make_request(req, status, hdr)
       /\ reqPages' = Append(reqPages, page)
       /\ IF ~Raises(status)
          THEN IF WalkDone(data, PerPage)
               THEN /\ fetched' = WalkAcc(acc, data)
                    /\ pc' = donePc
                    /\ acc' = <<>> /\ page' = 1
                    /\ UNCHANGED << aborted, swallowed, emptyRepos >>
               ELSE /\ acc' = WalkAcc(acc, data)
                    /\ page' = WalkPage(page, data)
                    /\ UNCHANGED << pc, fetched, aborted, swallowed, emptyRepos >>
          ELSE IF recover409 /\ IsEmptyRepository(status)
               THEN /\ fetched' = acc
                    /\ pc' = donePc
                    /\ acc' = <<>> /\ page' = 1
                    /\ swallowed' = (swallowed \/ inj # 200)
                    /\ emptyRepos' = IF page = 1 THEN emptyRepos \cup {ri} ELSE emptyRepos
                    /\ UNCHANGED aborted
               ELSE /\ Raise
                    /\ UNCHANGED << fetched, acc, page, swallowed, emptyRepos >>

\* a fetch that sends one request and returns its body; recover404: the
\* fetch catches HTTP 404 (get_contributors)
SingleRequest(kind, name, number, recover404, donePc) ==
  \E inj \in {200} \cup Injected, hdr \in RunHeaders :
    LET req == Req(kind, name, number, 0, 0)
        status == StatusOf(req, inj)
        data == SourceBody(Sources[src], req)
    IN /\ _make_request(req, status, hdr)
       /\ IF ~Raises(status)
          THEN /\ fetched' = data
               /\ pc' = donePc
               /\ UNCHANGED << aborted, swallowed >>
          ELSE IF recover404 /\ IsNotFound(status)
               THEN /\ fetched' = <<>>
                    /\ pc' = donePc
                    /\ swallowed' = (swallowed \/ inj # 200)
                    /\ UNCHANGED aborted
               ELSE /\ Raise
                    /\ UNCHANGED << fetched, swallowed >>
       /\ UNCHANGED << acc, page, reqPages, emptyRepos >>

GetRepositoriesPage ==
  /\ pc = "get_repositories"
  /\ WalkRequest("repos", 0, FALSE, "store_repositories")
  /\ repositories' = IF pc' = "store_repositories" THEN fetched' ELSE repositories
  /\ UNCHANGED << db, lastCall, callBit, ri, pr_ids, issue_ids, k, src,
                  include_comments, runs, changes, aloneVars >>

GetCommitsPage ==
  /\ pc = "get_commits"
  /\ WalkRequest("commits", Repo.name, TRUE, "store_commits")
  /\ UNCHANGED << db, lastCall, callBit, repositories, ri, pr_ids, issue_ids, k, src,
                  include_comments, runs, changes, aloneVars >>

GetContributors ==
  /\ pc = "get_contributors"
  /\ SingleRequest("contributors", Repo.name, 0, TRUE, "store_contributors")
  /\ UNCHANGED << db, lastCall, callBit, repositories, ri, pr_ids, issue_ids, k, src,
                  include_comments, runs, changes, aloneVars >>

GetPullRequestsPage ==
  /\ pc = "get_pull_requests"
  /\ WalkRequest("pulls", Repo.name, FALSE, "store_pull_requests")
  /\ UNCHANGED << db, lastCall, callBit, repositories, ri, pr_ids, issue_ids, k, src,
                  include_comments, runs, changes, aloneVars >>

GetIssuesPage ==
  /\ pc = "get_issues"
  /\ WalkRequest("issues", Repo.name, FALSE, "store_issues")
  /\ UNCHANGED << db, lastCall, callBit, repositories, ri, pr_ids, issue_ids, k, src,
                  include_comments, runs, changes, aloneVars >>

GetIssueComments ==
  /\ pc = "get_issue_comments"
  /\ SingleRequest("icomments", Repo.name, issue_ids[k], FALSE, "store_issue_comments")
  /\ UNCHANGED << db, lastCall, callBit, repositories, ri, pr_ids, issue_ids, k, src,
                  include_comments, runs, changes, aloneVars >>

GetPrComments ==
  /\ pc = "get_pr_comments"
  /\ SingleRequest("pcomments", Repo.name, pr_ids[k], FALSE, "store_pr_comments")
  /\ UNCHANGED << db, lastCall, callBit, repositories, ri, pr_ids, issue_ids, k, src,
                  include_comments, runs, changes, aloneVars >>

\* ------------------------------------------------------ store_* calls
CollectionOf(op) ==
  CASE op = "store_repositories"  -> "repositories"
    [] op = "store_commits"       -> "commits"
    [] op = "store_contributors"  -> "contributors"
    [] op = "store_pull_requests" -> "pull_requests"
    [] op = "store_issues"        -> "issues"
    [] op = "store_comments"      -> "comments"

\* the loop of store_* `op` over the first n records of the batch
RunLoop(op, coll, repository_id, batch, issue_id, pull_request_id, n, t, dt) ==
  CASE op = "store_repositories"  -> RepoLoop(coll, batch, n, t, dt)
    [] op = "store_commits"       -> CommitLoop(coll, repository_id, batch, n, t, dt)
    [] op = "store_contributors"  -> ContributorLoop(coll, repository_id, batch, n, t, dt)
    [] op = "store_pull_requests" -> PullRequestLoop(coll, repository_id, batch, n, t, dt)
    [] op = "store_issues"        -> IssueLoop(coll, repository_id, batch, n, t, dt)
    [] op = "store_comments"      -> CommentLoop(coll, repository_id, batch, issue_id,
                                                 pull_request_id, n, t, dt)

\* the record whose update_one the call performs at position i
Written(op, batch, i) == ~(op = "store_issues" /\ IsPullRequestShaped(batch[i]))

\* failAt = 0: the call returns; failAt = i: update_one of record i raises
FailPoints(op, batch) == {0} \cup {i \in 1..Len(batch) : Written(op, batch, i)}

\* a failing call rolls its batch back
Processed_rollback(batch, failAt) == IF failAt = 0 THEN Len(batch) ELSE 0

\* records processed when the call fails at failAt
Processed(batch, failAt) == IF failAt = 0 THEN Len(batch) ELSE failAt - 1

\* the clock advances by dt between two records of a batch
Paces(batch, failAt) ==
  IF Processed(batch, failAt) >= 2 /\ now < MaxTime THEN {0, 1} ELSE {0}

\* one call of store_* : effect on the store and the clock
StoreCall(op, repository_id, batch, issue_id, pull_request_id, failAt, dt) ==
  LET n == Processed(batch, failAt)
      r == RunLoop(op, db[CollectionOf(op)], repository_id, batch, issue_id,
                   pull_request_id, n, now, dt)
  IN /\ db' = [db EXCEPT ![CollectionOf(op)] = r.coll]
     /\ now' = IF n = 0 THEN now ELSE StampAt(now, dt, n)
     /\ lastCall' = [op |-> op, repository_id |-> repository_id, batch |-> batch,
                     issue_id |-> issue_id, pull_request_id |-> pull_request_id,
                     failAt |-> failAt, ids |-> IF failAt = 0 THEN r.ids ELSE <<>>,
                     startedAt |-> now,
                     repeat |-> /\ lastCall.op = op /\ lastCall.failAt = 0
                                /\ lastCall.repository_id = repository_id
                                /\ lastCall.batch = batch
                                /\ lastCall.issue_id = issue_id
                                /\ lastCall.pull_request_id = pull_request_id,
                     retry |-> /\ lastCall.op = op /\ lastCall.failAt # 0
                               /\ lastCall.repository_id = repository_id
                               /\ lastCall.batch = batch
                               /\ lastCall.issue_id = issue_id
                               /\ lastCall.pull_request_id = pull_request_id,
                     before |-> IF failAt = 0 THEN <<>>
                                ELSE Unstamped(db[CollectionOf(op)])]
     /\ callBit' = 1 - callBit

\* a store_* call of collect_all_data; goes on at okPc when it returns
RunStore(op, repository_id, batch, issue_id, pull_request_id, okPc) ==
  \E failAt \in FailPoints(op, batch) :
    \E dt \in {0} :
      /\ StoreCall(op, repository_id, batch, issue_id, pull_request_id, failAt, dt)
      /\ IF failAt = 0 THEN pc' = okPc /\ UNCHANGED aborted ELSE Raise

StoreRepositories ==
  /\ pc = "store_repositories"
  /\ RunStore("store_repositories", 0, repositories, None, None,
              IF Len(repositories) > 0 THEN "get_commits" ELSE "done")
  /\ ri' = IF pc' = "get_commits" THEN 1 ELSE ri
  /\ UNCHANGED << clientVars, repositories, page, acc, fetched, pr_ids, issue_ids, k,
                  reqPages, src, include_comments, runs, changes, swallowed,
                  emptyRepos, aloneVars >>

StoreCommits ==
  /\ pc = "store_commits"
  /\ RunStore("store_commits", Repo.id, fetched, None, None, "get_contributors")
  /\ UNCHANGED << clientVars, repositories, ri, page, acc, fetched, pr_ids, issue_ids,
                  k, reqPages, src, include_comments, runs, changes, swallowed,
                  emptyRepos, aloneVars >>

StoreContributors ==
  /\ pc = "store_contributors"
  /\ RunStore("store_contributors", Repo.id, fetched, None, None, "get_pull_requests")
  /\ reqPages' = <<>>
  /\ UNCHANGED << clientVars, repositories, ri, page, acc, fetched, pr_ids, issue_ids,
                  k, src, include_comments, runs, changes, swallowed,
                  emptyRepos, aloneVars >>

StorePullRequests ==
  /\ pc = "store_pull_requests"
  /\ RunStore("store_pull_requests", Repo.id, fetched, None, None, "get_issues")
  /\ pr_ids' = IF pc' = "get_issues" THEN lastCall'.ids ELSE pr_ids
  /\ reqPages' = <<>>
  /\ UNCHANGED << clientVars, repositories, ri, page, acc, fetched, issue_ids,
                  k, src, include_comments, runs, changes, swallowed,
                  emptyRepos, aloneVars >>

\* where collect_all_data goes on once the issues, the comments of issue
\* i of the list, or the comments of pull request i of the list are stored
\* the comments are collected whatever include_comments says
AfterIssues_always(ids) ==
  IF Len(ids) > 0 THEN "get_issue_comments"
  ELSE IF Len(pr_ids) > 0 THEN "get_pr_comments"
  ELSE NextRepoPc

\* if include_comments: the two comment loops, else the next repository
AfterIssues(ids) ==
  IF include_comments /\ Len(ids) > 0 THEN "get_issue_comments"
  ELSE IF include_comments /\ Len(pr_ids) > 0 THEN "get_pr_comments"
  ELSE NextRepoPc

AfterIssueComments ==
  IF k < Len(issue_ids) THEN "get_issue_comments"
  ELSE IF Len(pr_ids) > 0 THEN "get_pr_comments"
  ELSE NextRepoPc

AfterPrComments ==
  IF k < Len(pr_ids) THEN "get_pr_comments" ELSE NextRepoPc

\* the locals once the body of the for loop over repositories is left
LeaveRepo ==
  /\ ri' = NextRepoRi
  /\ pr_ids' = <<>> /\ issue_ids' = <<>> /\ k' = 0 /\ reqPages' = <<>>

StoreIssues ==
  /\ pc = "store_issues"
  /\ RunStore("store_issues", Repo.id, fetched, None, None, AfterIssues(
       IssueLoop(<<>>, Repo.id, fetched, Len(fetched), 0, 0).ids))
  /\ CASE pc' = "failed" -> UNCHANGED << ri, pr_ids, issue_ids, k, reqPages >>
       [] pc' \in {"get_commits", "done"} -> LeaveRepo
       [] OTHER -> /\ issue_ids' = lastCall'.ids
                   /\ k' = 1 /\ reqPages' = <<>>
                   /\ UNCHANGED << ri, pr_ids >>
  /\ UNCHANGED << clientVars, repositories, page, acc, fetched,
                  src, include_comments, runs, changes, swallowed,
                  emptyRepos, aloneVars >>

StoreIssueComments ==
  /\ pc = "store_issue_comments"
  /\ RunStore("store_comments", Repo.id, fetched, issue_ids[k], None, AfterIssueComments)
  /\ CASE pc' = "failed" -> UNCHANGED << ri, pr_ids, issue_ids, k, reqPages >>
       [] pc' \in {"get_commits", "done"} -> LeaveRepo
       [] pc' = "get_issue_comments" -> k' = k + 1 /\ UNCHANGED << ri, pr_ids, issue_ids, reqPages >>
       [] OTHER -> k' = 1 /\ UNCHANGED << ri, pr_ids, issue_ids, reqPages >>
  /\ UNCHANGED << clientVars, repositories, page, acc, fetched,
                  src, include_comments, runs, changes, swallowed,
                  emptyRepos, aloneVars >>

StorePrComments ==
  /\ pc = "store_pr_comments"
  /\ RunStore("store_comments", Repo.id, fetched, None, pr_ids[k], AfterPrComments)
  /\ CASE pc' = "failed" -> UNCHANGED << ri, pr_ids, issue_ids, k, reqPages >>
       [] pc' \in {"get_commits", "done"} -> LeaveRepo
       [] OTHER -> k' = k + 1 /\ UNCHANGED << ri, pr_ids, issue_ids, reqPages >>
  /\ UNCHANGED << clientVars, repositories, page, acc, fetched,
                  src, include_comments, runs, changes, swallowed,
                  emptyRepos, aloneVars >>

\* time passes between two runs
Tick ==
  /\ pc \in {"idle", "done", "failed"}
  /\ now < MaxTime
  /\ now' = now + 1
  /\ UNCHANGED << db, lastCall, callBit, clientVars, localVars, pc, runVars, aborted,
                  aloneVars >>

\* the upstream data changes between two runs
SourceChange ==
  /\ pc \in {"idle", "done", "failed"}
  /\ changes < MaxSourceChanges
  /\ src \in DOMAIN Changed
  /\ src' = Changed[src]
  /\ changes' = changes + 1
  /\ UNCHANGED << db, now, lastCall, callBit, clientVars, localVars, pc,
                  include_comments, runs, aborted, swallowed, emptyRepos, aloneVars >>

Init ==
  /\ db = EmptyDb
  /\ now = 0
  /\ rate_limit_remaining = requests_per_hour
  /\ rate_limit_reset = HourSecs
  /\ src \in 1..Len(Sources)
  /\ include_comments \in BOOLEAN
  /\ pc = "idle"
  /\ repositories = <<>> /\ ri = 0 /\ page = 1 /\ acc = <<>> /\ fetched = <<>>
  /\ pr_ids = <<>> /\ issue_ids = <<>> /\ k = 0 /\ reqPages = <<>>
  /\ lastReq = NoReq /\ reqBit = 0
  /\ lastCall = NoCall /\ callBit = 0
  /\ runs = 0 /\ changes = 0 /\ aborted = FALSE /\ swallowed = FALSE
  /\ emptyRepos = {}
  /\ script = <<>> /\ per_page = 0 /\ calls = 0 /\ directOp = "none"

Next ==
  \/ StartRun
  \/ GetRepositoriesPage
  \/ StoreRepositories
  \/ GetCommitsPage
  \/ StoreCommits
  \/ GetContributors
  \/ StoreContributors
  \/ GetPullRequestsPage
  \/ StorePullRequests
  \/ GetIssuesPage
  \/ StoreIssues
  \/ GetIssueComments
  \/ StoreIssueComments
  \/ GetPrComments
  \/ StorePrComments
  \/ Tick
  \/ SourceChange

Spec == Init /\ [][Next]_vars

\* ------------------------------------------- the store_* calls alone
\* records a caller may pass to each store_* operation
RecordsFor(op) ==
  CASE op = "store_repositories" ->
         { [id |-> 10, name |-> 1, permissions |-> 1],
           [id |-> 10, name |-> 2, collected_at |-> 99],
           [id |-> 11, name |-> 1] }
    [] op = "store_commits" ->
         { [sha |-> 1, message |-> 1], [sha |-> 1, message |-> 2, collected_at |-> 99],
           [sha |-> 2, message |-> 1] }
    [] op = "store_contributors" ->
         { [login |-> 1, contributions |-> 3],
           [login |-> 1, contributions |-> 4, collected_at |-> 99],
           [login |-> 2, contributions |-> 1] }
    [] op = "store_pull_requests" ->
         { [id |-> 30, number |-> 2, state |-> 1],
           [id |-> 30, number |-> 2, state |-> 2, collected_at |-> 99],
           [id |-> 31, number |-> 3, state |-> 1] }
    [] op = "store_issues" ->
         { [id |-> 20, number |-> 1, state |-> 1],
           [id |-> 20, number |-> 1, state |-> 2, collected_at |-> 99],
           [id |-> 21, number |-> 2, state |-> 1, pull_request |-> 1] }
    [] op = "store_comments" ->
         { [id |-> 40, body |-> 1], [id |-> 40, body |-> 2, collected_at |-> 99],
           [id |-> 41, body |-> 1] }

StoreOps == {"store_repositories", "store_commits", "store_contributors",
             "store_pull_requests", "store_issues", "store_comments"}

SeqsUpTo(S, n) == UNION { [1..m -> S] : m \in 0..n }

\* (repository_id, issue_id, pull_request_id) a caller may pass
ArgsFor(op) ==
  CASE op = "store_repositories" -> { <<0, None, None>> }
    [] op = "store_comments" -> { <<10, 1, None>>, <<10, None, 2>> }
    [] OTHER -> { <<10, None, None>>, <<11, None, None>> }

DirectCall ==
  /\ pc = "store"
  /\ calls < MaxDirectCalls
  /\ calls' = calls + 1
  /\ \E batch \in SeqsUpTo(RecordsFor(directOp), MaxBatch), a \in ArgsFor(directOp) :
       \E failAt \in FailPoints(directOp, batch) :
         \E dt \in Paces(batch, failAt) :
           StoreCall(directOp, a[1], batch, a[2], a[3], failAt, dt)
  /\ UNCHANGED << clientVars, localVars, pc, runVars, aborted, script, per_page, directOp >>

StoreTick ==
  /\ pc = "store"
  /\ now < MaxTime
  /\ now' = now + 1
  /\ UNCHANGED << db, lastCall, callBit, clientVars, localVars, pc, runVars, aborted,
                  aloneVars >>

InitStore ==
  /\ db = EmptyDb
  /\ now = 0
  /\ rate_limit_remaining = requests_per_hour
  /\ rate_limit_reset = HourSecs
  /\ src = 1
  /\ include_comments = TRUE
  /\ pc = "store"
  /\ repositories = <<>> /\ ri = 0 /\ page = 1 /\ acc = <<>> /\ fetched = <<>>
  /\ pr_ids = <<>> /\ issue_ids = <<>> /\ k = 0 /\ reqPages = <<>>
  /\ lastReq = NoReq /\ reqBit = 0
  /\ lastCall = NoCall /\ callBit = 0
  /\ runs = 0 /\ changes = 0 /\ aborted = FALSE /\ swallowed = FALSE
  /\ emptyRepos = {}
  /\ script = <<>> /\ per_page = 0 /\ calls = 0
  /\ directOp \in StoreOps

NextStore == DirectCall \/ StoreTick

SpecStore == InitStore /\ [][NextStore]_vars

\* ---------------------------------------------------- the fetcher alone
Statuses == {200, 404, 409, 500, TransportFailure}

AllHeaders ==
  { Hdr(TRUE, r, TRUE, t) : r \in {0, 1, 2}, t \in {1, 3} }
    \cup { Hdr(FALSE, 0, FALSE, 0), Hdr(TRUE, 2, FALSE, 0), Hdr(FALSE, 0, TRUE, 3) }

FetchCall ==
  /\ pc = "fetcher"
  /\ calls < MaxFetches
  /\ calls' = calls + 1
  /\ \E status \in Statuses, hdr \in AllHeaders :
       _make_request(Req("any", 0, 0, 0, 0), status, hdr)
  /\ UNCHANGED << db, lastCall, callBit, localVars, pc, runVars, aborted,
                  script, per_page, directOp >>

FetchTick ==
  /\ pc = "fetcher"
  /\ now < MaxTime
  /\ now' = now + 1
  /\ UNCHANGED << db, lastCall, callBit, clientVars, localVars, pc, runVars, aborted,
                  aloneVars >>

InitFetch ==
  /\ db = EmptyDb
  /\ now = 0
  /\ rate_limit_remaining = requests_per_hour
  /\ rate_limit_reset = HourSecs
  /\ src = 1
  /\ include_comments = TRUE
  /\ pc = "fetcher"
  /\ repositories = <<>> /\ ri = 0 /\ page = 1 /\ acc = <<>> /\ fetched = <<>>
  /\ pr_ids = <<>> /\ issue_ids = <<>> /\ k = 0 /\ reqPages = <<>>
  /\ lastReq = NoReq /\ reqBit = 0
  /\ lastCall = NoCall /\ callBit = 0
  /\ runs = 0 /\ changes = 0 /\ aborted = FALSE /\ swallowed = FALSE
  /\ emptyRepos = {}
  /\ script = <<>> /\ per_page = 0 /\ calls = 0
  /\ directOp = "none"

NextFetch == FetchCall \/ FetchTick

SpecFetch == InitFetch /\ [][NextFetch]_vars

\* ----------------------------------------------------- the walker alone
\* A source that serves the pages of a script: page p holds script[p] items,
\* pages after the script are empty.
ScriptSize(sc, p) == IF p \in 1..Len(sc) THEN sc[p] ELSE 0
ScriptPage(sc, p) == [i \in 1..ScriptSize(sc, p) |-> 1000 * p + i]

ScriptsFor(pp) ==
  IF pp = 100 THEN { <<100, 100, 100, 37>>, <<100, 100, 0>>, <<100, 100>> }
  ELSE SeqsUpTo(0..pp, MaxPages)

\* one page request of get_repositories(owner, per_page) against the script
WalkAlonePage ==
  /\ pc = "walk"
  /\ LET req == Req("repos", 0, 0, page, per_page)
         data == ScriptPage(script, page)
     IN /\ _make_request(req, 200, Hdr(TRUE, 4999, TRUE, HourSecs))
        /\ reqPages' = Append(reqPages, page)
        /\ IF WalkDone(data, per_page)
           THEN /\ fetched' = WalkAcc(acc, data)
                /\ pc' = "returned"
                /\ UNCHANGED << acc, page >>
           ELSE /\ acc' = WalkAcc(acc, data)
                /\ page' = WalkPage(page, data)
                /\ UNCHANGED << pc, fetched >>
  /\ UNCHANGED << db, lastCall, callBit, repositories, ri, pr_ids, issue_ids, k,
                  runVars, aborted, aloneVars >>

InitWalk ==
  /\ db = EmptyDb
  /\ now = 0
  /\ rate_limit_remaining = requests_per_hour
  /\ rate_limit_reset = HourSecs
  /\ src = 1
  /\ include_comments = TRUE
  /\ pc = "walk"
  /\ repositories = <<>> /\ ri = 0 /\ page = 1 /\ acc = <<>> /\ fetched = <<>>
  /\ pr_ids = <<>> /\ issue_ids = <<>> /\ k = 0 /\ reqPages = <<>>
  /\ lastReq = NoReq /\ reqBit = 0
  /\ lastCall = NoCall /\ callBit = 0
  /\ runs = 0 /\ changes = 0 /\ aborted = FALSE /\ swallowed = FALSE
  /\ emptyRepos = {}
  /\ per_page \in {2, 3, 100}
  /\ script \in ScriptsFor(per_page)
  /\ calls = 0
  /\ directOp = "none"

NextWalk == WalkAlonePage

SpecWalk == InitWalk /\ [][NextWalk]_vars

\* ================================================================ claims
\* two collections hold the same documents apart from collected_at
SameContent(a, b) ==
  /\ Len(a) = Len(b)
  /\ \A i \in 1..Len(a) : Strip(a[i]) = Strip(b[i])

\* C1: a store_* call that repeats the call before it with identical input
\* leaves every collection with the same number of documents and the same
\* content apart from collected_at; it creates no document.
C1_Idempotent ==
  [][ (callBit' # callBit /\ lastCall'.repeat /\ lastCall'.failAt = 0)
        => \A c \in Collections : SameContent(db[c], db'[c]) ]_vars

C1_Witness ==
  /\ lastCall.repeat /\ lastCall.failAt = 0
  /\ Len(lastCall.batch) = 2
  /\ Len(db[CollectionOf(lastCall.op)]) >= 1

\* C2: a walk requests pages 1, 2, 3, ... in order, stops at the first page
\* that is empty or shorter than per_page and returns the concatenation of
\* the pages up to that one; pages [100,100,100,37] give 337 items after 4
\* requests, pages [100,100,0] give 200 items after 3 requests.
FirstShort(sc, pp) ==
  CHOOSE n \in 1..(Len(sc) + 1) :
    /\ ScriptSize(sc, n) < pp
    /\ \A m \in 1..(n - 1) : ScriptSize(sc, m) >= pp

RECURSIVE ConcatPages(_, _)
ConcatPages(sc, n) == IF n = 0 THEN <<>> ELSE ConcatPages(sc, n - 1) \o ScriptPage(sc, n)

C2_Walk ==
  /\ pc = "walk" => reqPages = [i \in 1..(page - 1) |-> i]
  /\ pc = "returned" =>
       LET n == FirstShort(script, per_page)
       IN /\ reqPages = [i \in 1..n |-> i]
          /\ fetched = ConcatPages(script, n)
          /\ (per_page = 100 /\ script = <<100, 100, 100, 37>>)
               => (Len(fetched) = 337 /\ Len(reqPages) = 4)
          /\ (per_page = 100 /\ script = <<100, 100, 0>>)
               => (Len(fetched) = 200 /\ Len(reqPages) = 3)

C2_Witness ==
  /\ pc = "returned" /\ per_page = 100 /\ script = <<100, 100, 100, 37>>
  /\ Len(fetched) = 337

\* C3: store_issues neither writes a record carrying the pull_request marker
\* nor returns its number; no document of the issues collection comes from
\* such a record.
UnmarkedNumbers(batch) ==
  LET kept == SelectSeq(batch, LAMBDA r : ~Has(r, "pull_request"))
  IN [i \in 1..Len(kept) |-> kept[i]["number"]]

C3_NoPullRequestIssue ==
  /\ \A i \in 1..Len(db["issues"]) : ~Has(db["issues"][i], "pull_request")
  /\ (lastCall.op = "store_issues" /\ lastCall.failAt = 0) =>
       /\ lastCall.ids = UnmarkedNumbers(lastCall.batch)
       /\ \A j \in 1..Len(lastCall.batch) :
            Has(lastCall.batch[j], "pull_request") =>
              \A i \in 1..Len(db["issues"]) :
                db["issues"][i]["id"] # lastCall.batch[j]["id"]

C3_Witness ==
  /\ lastCall.op = "store_issues" /\ lastCall.failAt = 0
  /\ Len(lastCall.batch) = 2
  /\ Has(lastCall.batch[1], "pull_request") /\ ~Has(lastCall.batch[2], "pull_request")
  /\ Len(db["issues"]) = 1

\* C4: a fetch that starts with remaining <= 1 and reset_at in the future
\* sends its request no earlier than reset_at.
C4_WaitsForReset ==
  (lastReq.req.kind # "none" /\ lastReq.startRemaining <= 1
     /\ lastReq.startReset > lastReq.startNow)
    => (lastReq.sentAt >= lastReq.startReset /\ now >= lastReq.startReset)

C4_Witness ==
  /\ lastReq.req.kind # "none" /\ lastReq.startRemaining = 1
  /\ lastReq.startReset > lastReq.startNow
  /\ lastReq.sentAt = lastReq.startReset

\* C5: HTTP 409 on the first page of a commit walk ends the walk with an
\* empty list and no error; store_commits then writes nothing and the run
\* goes on with the contributors of that repository.
C5_EmptyRepository ==
  [][ /\ (pc = "get_commits" /\ page = 1 /\ reqBit' # reqBit /\ lastReq'.status = 409)
         => (pc' = "store_commits" /\ fetched' = <<>> /\ ri' = ri)
      /\ (pc = "store_commits" /\ ri \in emptyRepos /\ callBit' # callBit)
         => (pc' = "get_contributors" /\ db' = db /\ ri' = ri /\ lastCall'.ids = <<>>)
    ]_vars

C5_Witness ==
  /\ pc = "done" /\ runs = 1 /\ ~aborted
  /\ Len(repositories) = 2 /\ emptyRepos = {1, 2}
  /\ Len(db["issues"]) = 2

\* the natural key of a document of collection c, and the filter that finds it
NaturalKey(c, d) ==
  CASE c = "commits"      -> << d["sha"], d["repository_id"] >>
    [] c = "contributors" -> << d["login"], d["repository_id"] >>
    [] OTHER              -> << d["id"] >>

Keys(c, coll) == { NaturalKey(c, coll[i]) : i \in 1..Len(coll) }

NoDuplicateKeys(d) == \A c \in Collections : Cardinality(Keys(c, d[c])) = Len(d[c])

\* the document of collection c that holds record r stored for repository rid
StoredFor(c, coll, r, rid) ==
  LET key == NaturalKey(c, SetField(r, "repository_id", rid))
  IN CHOOSE d \in { coll[i] : i \in 1..Len(coll) } : NaturalKey(c, d) = key

\* C6: the documents written by a store call of the run for a repository
\* carry that repository's id as repository_id; the comments written by
\* store_comments for an issue carry that issue's number as issue_id and
\* no pull_request_id.
C6_ForeignKeys ==
  LET c == lastCall
      coll == db[CollectionOf(c.op)]
  IN (pc \notin {"store", "fetcher", "walk"} /\ c.op # "none" /\ c.failAt = 0
        /\ c.op # "store_repositories") =>
       /\ \E i \in 1..Len(repositories) : repositories[i]["id"] = c.repository_id
       /\ \A j \in 1..Len(c.batch) :
            Written(c.op, c.batch, j) =>
              LET d == StoredFor(CollectionOf(c.op), coll, c.batch[j], c.repository_id)
              IN /\ d["repository_id"] = c.repository_id
                 /\ (c.op = "store_comments" /\ c.issue_id # None) =>
                      (Has(d, "issue_id") /\ d["issue_id"] = c.issue_id
                         /\ ~Has(d, "pull_request_id"))

\* C7: every document of the comments collection carries exactly one of
\* issue_id and pull_request_id.
C7_ExactlyOneParent ==
  \A i \in 1..Len(db["comments"]) :
    Has(db["comments"][i], "issue_id") # Has(db["comments"][i], "pull_request_id")

\* ---- the store one successful run leaves when it starts on an empty store
\* what a walk of the run returns for a repository
WalkOf(s, kind, name) ==
  IF SourceStatus(s, Req(kind, name, 0, 1, PerPage)) # 200 THEN <<>>
  ELSE ListOf(s, Req(kind, name, 0, 1, PerPage))

\* what a fetch without pages returns
FetchOf(s, kind, name, number) ==
  IF SourceStatus(s, Req(kind, name, number, 0, 0)) # 200 THEN <<>>
  ELSE SourceBody(s, Req(kind, name, number, 0, 0))

RECURSIVE CommentsPass(_, _, _, _, _, _)
CommentsPass(coll, s, repo, kind, numbers, n) ==
  IF n = 0 THEN coll
  ELSE LET prev == CommentsPass(coll, s, repo, kind, numbers, n - 1)
           comments == FetchOf(s, kind, repo["name"], numbers[n])
       IN IF kind = "icomments"
          THEN store_comments(prev, repo["id"], comments, numbers[n], None, 0, 0).coll
          ELSE store_comments(prev, repo["id"], comments, None, numbers[n], 0, 0).coll

RepoPass(d, s, repo, withComments) ==
  LET name == repo["name"]
      rid == repo["id"]
      commits == store_commits(d["commits"], rid, WalkOf(s, "commits", name), 0, 0)
      contributors == store_contributors(d["contributors"], rid,
                                         FetchOf(s, "contributors", name, 0), 0, 0)
      prs == store_pull_requests(d["pull_requests"], rid, WalkOf(s, "pulls", name), 0, 0)
      issues == store_issues(d["issues"], rid, WalkOf(s, "issues", name), 0, 0)
      c1 == CommentsPass(d["comments"], s, repo, "icomments", issues.ids, Len(issues.ids))
      c2 == CommentsPass(c1, s, repo, "pcomments", prs.ids, Len(prs.ids))
  IN [repositories |-> d["repositories"], commits |-> commits.coll,
      contributors |-> contributors.coll, pull_requests |-> prs.coll,
      issues |-> issues.coll,
      comments |-> IF withComments THEN c2 ELSE d["comments"]]

RECURSIVE ReposPass(_, _, _, _)
ReposPass(d, s, n, withComments) ==
  IF n = 0 THEN d
  ELSE RepoPass(ReposPass(d, s, n - 1, withComments), s, s.repos[n], withComments)

CleanRun(s, withComments) ==
  ReposPass([EmptyDb EXCEPT !["repositories"] =
               store_repositories(<<>>, s.repos, 0, 0).coll],
            s, Len(s.repos), withComments)

DocSet(coll) == { Strip(coll[i]) : i \in 1..Len(coll) }

\* C8: with the source unchanged, a run that completes, whatever runs were
\* aborted before it, leaves the store that one successful run leaves on an
\* empty store, apart from collected_at, and no natural key stored twice.
C8_RerunConverges ==
  (pc = "done" /\ changes = 0 /\ ~swallowed) =>
    /\ \A c \in Collections :
         DocSet(db[c]) = DocSet(CleanRun(Sources[src], include_comments)[c])
    /\ NoDuplicateKeys(db)

C8_Witness ==
  /\ pc = "done" /\ changes = 0 /\ ~swallowed /\ aborted /\ runs = 2
  /\ Len(db["commits"]) = 3 /\ Len(db["comments"]) = 3

\* C9: no step removes a natural key from a collection, whatever the source
\* holds by then.
C9_NeverDeleted ==
  [][ \A c \in Collections :
        /\ Keys(c, db[c]) \subseteq Keys(c, db'[c])
        /\ Len(db'[c]) >= Len(db[c]) ]_vars

C9_Witness ==
  /\ pc = "done" /\ changes = 1 /\ src = 3 /\ runs = 2 /\ ~aborted
  /\ Len(db["commits"]) = 3 /\ Len(db["repositories"]) = 2
  /\ Len(Sources[src].commits[1]) = 1

\* C10: every stored document carries a collected_at read from the clock
\* when it was written, never the one supplied in the record, and the
\* collected_at stored for a natural key never decreases.
StampedByStore ==
  /\ \A c \in Collections : \A i \in 1..Len(db[c]) :
       Has(db[c][i], "collected_at") /\ db[c][i]["collected_at"] <= now
  /\ lastCall.op # "none" =>
       \A j \in 1..Processed(lastCall.batch, lastCall.failAt) :
         Written(lastCall.op, lastCall.batch, j) =>
           StoredFor(CollectionOf(lastCall.op), db[CollectionOf(lastCall.op)],
                     lastCall.batch[j], lastCall.repository_id)["collected_at"]
             >= lastCall.startedAt

StampNeverDecreases ==
  \A c \in Collections : \A i \in 1..Len(db[c]) :
    /\ i <= Len(db'[c])
    /\ NaturalKey(c, db'[c][i]) = NaturalKey(c, db[c][i])
    /\ db'[c][i]["collected_at"] >= db[c][i]["collected_at"]

C10_CollectedAt == [](StampedByStore) /\ [][StampNeverDecreases]_vars

C10_Witness ==
  /\ lastCall.repeat /\ lastCall.failAt = 0 /\ lastCall.startedAt > 0
  /\ Len(lastCall.batch) = 1 /\ Has(lastCall.batch[1], "collected_at")
  /\ db[CollectionOf(lastCall.op)][1]["collected_at"] = lastCall.startedAt

\* C11: a non-2xx response to a request of the run, other than 409 in the
\* commit walk and 404 in the contributor fetch, leaves the walk as an
\* error: the run fails, the walk hands over no list and the store is not
\* written, neither at that step nor later in the failed run.
RecoveredStatus(r) ==
  \/ (r.req.kind = "commits" /\ r.status = 409)
  \/ (r.req.kind = "contributors" /\ r.status = 404)

C11_ErrorsPropagate ==
  [][ /\ (reqBit' # reqBit /\ lastReq'.status >= 400 /\ ~RecoveredStatus(lastReq'))
         => (pc' = "failed" /\ aborted' /\ db' = db /\ fetched' = fetched
               /\ repositories' = repositories /\ callBit' = callBit)
      /\ pc = "failed" => (db' = db /\ callBit' = callBit)
    ]_vars

C11_Witness ==
  /\ pc = "failed" /\ lastReq.status = 500
  /\ lastReq.req.kind = "commits" /\ lastReq.req.page = 2
  /\ Len(acc) = PerPage /\ db["commits"] = <<>>

\* C12: HTTP 404 on the contributor fetch yields the empty list and no
\* error; store_contributors then writes nothing, returns no key and the
\* run goes on with the pull requests of the repository.
C12_MissingContributors ==
  [][ /\ (pc = "get_contributors" /\ reqBit' # reqBit /\ lastReq'.status = 404)
         => (pc' = "store_contributors" /\ fetched' = <<>> /\ ri' = ri
               /\ aborted' = aborted /\ db' = db)
      /\ (pc = "store_contributors" /\ fetched = <<>> /\ callBit' # callBit)
         => (pc' = "get_pull_requests" /\ db' = db /\ ri' = ri
               /\ lastCall'.ids = <<>> /\ lastCall'.failAt = 0)
    ]_vars

C12_Witness ==
  /\ pc = "get_pull_requests" /\ ~aborted
  /\ lastReq.req.kind = "contributors" /\ lastReq.status = 404
  /\ lastCall.op = "store_contributors" /\ lastCall.batch = <<>>
  /\ db["contributors"] = <<>> /\ Len(db["commits"]) > 0

\* C13: a comment request for an issue number (pull request number) of a
\* repository is sent only once store_issues (store_pull_requests) has
\* returned that number for the repository and the issue (pull request) is
\* in the store.
Range(seq) == { seq[i] : i \in 1..Len(seq) }

StoredNumber(coll, number, repository_id) ==
  \E i \in 1..Len(coll) :
    coll[i]["number"] = number /\ coll[i]["repository_id"] = repository_id

C13_CommentsAfterParent ==
  [][ /\ (reqBit' # reqBit /\ lastReq'.req.kind = "icomments")
         => /\ pc = "get_issue_comments"
            /\ lastReq'.req.number \in Range(issue_ids)
            /\ lastReq'.req.name = Repo["name"]
            /\ StoredNumber(db["issues"], lastReq'.req.number, Repo["id"])
            /\ (k = 1 => (lastCall.op = "store_issues" /\ lastCall.failAt = 0
                            /\ lastCall.ids = issue_ids
                            /\ lastCall.repository_id = Repo["id"]))
      /\ (reqBit' # reqBit /\ lastReq'.req.kind = "pcomments")
         => /\ pc = "get_pr_comments"
            /\ lastReq'.req.number \in Range(pr_ids)
            /\ lastReq'.req.name = Repo["name"]
            /\ StoredNumber(db["pull_requests"], lastReq'.req.number, Repo["id"])
      /\ (callBit' # callBit /\ lastCall'.op = "store_pull_requests"
            /\ lastCall'.failAt = 0)
         => (pr_ids' = lastCall'.ids /\ pc' = "get_issues")
    ]_vars

C13_Witness ==
  /\ pc = "store_pr_comments" /\ runs = 1 /\ ~aborted
  /\ lastReq.req.kind = "pcomments" /\ lastReq.req.number = 2
  /\ Len(db["comments"]) >= 1
  /\ StoredNumber(db["pull_requests"], 2, Repo["id"])

\* C14: a fatal error while a repository is processed ends the run: the
\* error leaves collect_all_data and main, no request and no store call
\* follows it in that run, nothing of a later repository is written, and
\* the store keeps what was written before the error.
FatalStep ==
  \/ (reqBit' # reqBit /\ Raises(lastReq'.status) /\ ~RecoveredStatus(lastReq'))
  \/ (callBit' # callBit /\ lastCall'.failAt # 0)

NothingOf(repository_id) ==
  \A c \in {"commits", "contributors", "pull_requests", "issues", "comments"} :
    \A i \in 1..Len(db[c]) : db[c][i]["repository_id"] # repository_id

C14_FatalAborts ==
  /\ [](pc = "failed" => aborted)
  /\ []((pc = "failed" /\ runs = 1 /\ changes = 0 /\ ri >= 1)
          => \A j \in (ri + 1)..Len(repositories) : NothingOf(repositories[j]["id"]))
  /\ [][ /\ FatalStep => (pc' = "failed" /\ aborted' /\ ri' = ri
                            /\ Len(db'["repositories"]) >= Len(db["repositories"])
                            /\ \A c \in Collections : Len(db'[c]) >= Len(db[c]))
         /\ (FatalStep /\ reqBit' # reqBit) => db' = db
         /\ pc = "failed"
            => /\ db' = db /\ reqBit' = reqBit /\ callBit' = callBit
               /\ (pc' = "failed" \/ (pc' = "get_repositories" /\ runs' = runs + 1))
       ]_vars

C14_Witness ==
  /\ pc = "failed" /\ aborted /\ runs = 1 /\ changes = 0
  /\ Len(repositories) = 2 /\ ri = 1
  /\ lastReq.status = 500 /\ lastReq.req.kind = "pulls"
  /\ Len(db["commits"]) > 0 /\ Len(db["repositories"]) = 2
  /\ NothingOf(repositories[2]["id"])

\* C15: a store_* call whose update_one fails on record k of its batch
\* raises: the records before k stay written, no document is created or
\* changed for the records from k on, and the call returns no key list.
FailedCall == callBit' # callBit /\ lastCall'.failAt # 0

RecordKey(call, j) ==
  NaturalKey(CollectionOf(call.op),
             SetField(call.batch[j], "repository_id", call.repository_id))

WrittenBefore(call) ==
  { j \in 1..(call.failAt - 1) : Written(call.op, call.batch, j) }

DoneKeys(call) == { RecordKey(call, j) : j \in WrittenBefore(call) }

LastWith(call, key) ==
  CHOOSE j \in WrittenBefore(call) :
    /\ RecordKey(call, j) = key
    /\ \A i \in WrittenBefore(call) : RecordKey(call, i) = key => i <= j

Holds(d, r) == \A f \in DOMAIN r \ {"collected_at"} : Has(d, f) /\ d[f] = r[f]

C15_PartialBatch ==
  [][ FailedCall =>
        LET call == lastCall'
            c == CollectionOf(call.op)
        IN /\ call.ids = <<>>
           /\ \A o \in Collections \ {c} : db'[o] = db[o]
           /\ \A key \in DoneKeys(call) :
                \E i \in 1..Len(db'[c]) :
                  /\ NaturalKey(c, db'[c][i]) = key
                  /\ Holds(db'[c][i], call.batch[LastWith(call, key)])
                  /\ db'[c][i]["collected_at"] >= call.startedAt
                  /\ db'[c][i]["collected_at"] <= now'
           /\ \A i \in 1..Len(db[c]) :
                NaturalKey(c, db[c][i]) \notin DoneKeys(call) => db'[c][i] = db[c][i]
           /\ Keys(c, db'[c]) = Keys(c, db[c]) \cup DoneKeys(call)
           /\ Len(db'[c]) = Cardinality(Keys(c, db'[c]))
    ]_vars

C15_Witness ==
  /\ lastCall.failAt = 2 /\ Len(lastCall.batch) = 2 /\ lastCall.ids = <<>>
  /\ RecordKey(lastCall, 1) # RecordKey(lastCall, 2)
  /\ RecordKey(lastCall, 1) \in Keys(CollectionOf(lastCall.op), db[CollectionOf(lastCall.op)])
  /\ RecordKey(lastCall, 2) \notin Keys(CollectionOf(lastCall.op), db[CollectionOf(lastCall.op)])

\* C16: when a store_* call has failed inside its batch and the same call
\* is made again with the same batch and returns, the collection holds,
\* apart from collected_at, what one call that had not failed would have
\* left on the collection as it was before the failed call.
RetryOf(failed, call) ==
  /\ failed.failAt # 0 /\ call.failAt = 0
  /\ call.op = failed.op /\ call.batch = failed.batch
  /\ call.repository_id = failed.repository_id
  /\ call.issue_id = failed.issue_id
  /\ call.pull_request_id = failed.pull_request_id

Uninterrupted(call) ==
  RunLoop(call.op, call.before, call.repository_id, call.batch, call.issue_id,
          call.pull_request_id, Len(call.batch), 0, 0).coll

C16_RetryConverges ==
  [][ (callBit' # callBit /\ RetryOf(lastCall, lastCall'))
        => /\ SameContent(db'[CollectionOf(lastCall.op)], Uninterrupted(lastCall))
           /\ lastCall'.ids
                = RunLoop(lastCall.op, lastCall.before, lastCall.repository_id,
                          lastCall.batch, lastCall.issue_id, lastCall.pull_request_id,
                          Len(lastCall.batch), 0, 0).ids
    ]_vars

C16_Witness ==
  /\ lastCall.retry /\ lastCall.failAt = 0
  /\ Len(lastCall.batch) = 2 /\ Len(lastCall.ids) = 2
  /\ Len(db[CollectionOf(lastCall.op)]) = 2

\* C17: after a fetcher call that received a response, an HTTP error
\* response included, remaining and reset_at are the values of the
\* rate-limit headers of that response, whatever they were before.
C17_HeadersAuthoritative ==
  (lastReq.req.kind # "none" /\ lastReq.status # TransportFailure)
    => /\ lastReq.hdr.has_remaining => rate_limit_remaining = lastReq.hdr.remaining
       /\ lastReq.hdr.has_reset => rate_limit_reset = lastReq.hdr.reset

C17_Witness ==
  /\ lastReq.req.kind # "none" /\ lastReq.status = 500 /\ lastReq.raised
  /\ lastReq.hdr.has_remaining /\ lastReq.hdr.has_reset
  /\ lastReq.hdr.remaining # lastReq.startRemaining
  /\ lastReq.hdr.reset # lastReq.startReset
  /\ lastReq.startRemaining # requests_per_hour
  /\ rate_limit_remaining = lastReq.hdr.remaining

\* C18: a walk over a source that holds total_items items and serves them in
\* pages of page_size sends at most ceil(total_items / page_size) + 1 page
\* requests: it has returned by then.
RECURSIVE TotalItems(_, _)
TotalItems(sc, n) == IF n = 0 THEN 0 ELSE TotalItems(sc, n - 1) + ScriptSize(sc, n)

CeilDiv(a, b) == (a + b - 1) \div b

RequestBound == CeilDiv(TotalItems(script, Len(script)), per_page) + 1

C18_RequestBound ==
  /\ pc = "walk" => Len(reqPages) < RequestBound
  /\ pc = "returned" => Len(reqPages) <= RequestBound

C18_Witness ==
  /\ pc = "returned" /\ per_page = 2 /\ script = <<2, 2>>
  /\ Len(reqPages) = 3 /\ RequestBound = 3 /\ Len(fetched) = 4

\* C19: after a store_* call has written record r for a natural key, the
\* stored document of that key is r with its injected fields and nothing
\* else: no field of an earlier version of the document is left.
WrittenAll(call) == { j \in 1..Len(call.batch) : Written(call.op, call.batch, j) }

LastOfKey(call, j) ==
  \A i \in WrittenAll(call) : RecordKey(call, i) = RecordKey(call, j) => i <= j

\* record j of the batch as the call hands it to update_one
AsWritten(call, j) ==
  CASE call.op = "store_repositories" -> call.batch[j]
    [] call.op = "store_comments" ->
         TagComment(call.batch[j], call.repository_id, call.issue_id,
                    call.pull_request_id)
    [] OTHER -> SetField(call.batch[j], "repository_id", call.repository_id)

C19_UpsertReplaces ==
  [][ (callBit' # callBit /\ lastCall'.failAt = 0)
        => LET call == lastCall'
               c == CollectionOf(call.op)
           IN \A j \in WrittenAll(call) :
                LastOfKey(call, j)
                  => \E i \in 1..Len(db'[c]) :
                       /\ NaturalKey(c, db'[c][i]) = RecordKey(call, j)
                       /\ Strip(db'[c][i]) = Strip(AsWritten(call, j))
    ]_vars

\* C20: with comment collection enabled, after a run that completed on an
\* unchanged source, every comment the source holds for a collected issue
\* or a collected pull request is in the comments collection.
HeldComments(s, table, parents) ==
  UNION { IF StoredNumber(db[parents], table[i][2], s.repos[table[i][1]]["id"])
          THEN { table[i][3][j]["id"] : j \in 1..Len(table[i][3]) }
          ELSE {}
          : i \in 1..Len(table) }

C20_AllComments ==
  (pc = "done" /\ include_comments /\ changes = 0 /\ ~swallowed)
    => LET s == Sources[src]
           stored == { db["comments"][i]["id"] : i \in 1..Len(db["comments"]) }
       IN /\ HeldComments(s, s.icomments, "issues") \subseteq stored
          /\ HeldComments(s, s.pcomments, "pull_requests") \subseteq stored

\* C21: after a run that completed without error on an empty store, each
\* collection holds one document per item of its kind in the source, issue
\* records with the pull_request marker left out; for the source with one
\* repository, 2 commits, 1 contributor, 1 pull request and 1 issue with 2
\* comments these are 1, 2, 1, 1, 1 and 2 documents, every comment carrying
\* the number of the issue and none a pull request number.
ItemsOf(s, lists) ==
  UNION { { << r, i >> : i \in 1..Len(lists[s.repos[r]["name"]]) }
          : r \in 1..Len(s.repos) }

TrueIssues(s) ==
  { e \in ItemsOf(s, s.issues) :
      ~Has(s.issues[s.repos[e[1]]["name"]][e[2]], "pull_request") }

HasNumber(s, lists, marked, name, number) ==
  \E r \in 1..Len(s.repos) :
    /\ s.repos[r]["name"] = name
    /\ \E i \in 1..Len(lists[name]) :
         /\ lists[name][i]["number"] = number
         /\ (marked \/ ~Has(lists[name][i], "pull_request"))

CommentItems(s, table, lists, marked) ==
  UNION { IF HasNumber(s, lists, marked, table[e][1], table[e][2])
          THEN { << e, j >> : j \in 1..Len(table[e][3]) }
          ELSE {}
          : e \in 1..Len(table) }

SourceItems(s, c) ==
  CASE c = "repositories"  -> Len(s.repos)
    [] c = "commits"       -> Cardinality(ItemsOf(s, s.commits))
    [] c = "contributors"  -> Cardinality(ItemsOf(s, s.contributors))
    [] c = "pull_requests" -> Cardinality(ItemsOf(s, s.pulls))
    [] c = "issues"        -> Cardinality(TrueIssues(s))
    [] c = "comments"      -> Cardinality(CommentItems(s, s.icomments, s.issues, FALSE))
                                + Cardinality(CommentItems(s, s.pcomments, s.pulls, TRUE))

C21_EndToEndCounts ==
  (pc = "done" /\ runs = 1 /\ changes = 0 /\ ~swallowed /\ include_comments)
    => /\ \A c \in Collections : Len(db[c]) = SourceItems(Sources[src], c)
       /\ Sources[src] = SrcA
            => /\ Len(db["repositories"]) = 1 /\ Len(db["commits"]) = 2
               /\ Len(db["contributors"]) = 1 /\ Len(db["pull_requests"]) = 1
               /\ Len(db["issues"]) = 1 /\ Len(db["comments"]) = 2
               /\ \A i \in 1..Len(db["comments"]) :
                    /\ db["comments"][i]["issue_id"] = 1
                    /\ ~Has(db["comments"][i], "pull_request_id")

RepositoryPhases ==
  {"get_commits", "store_commits", "get_contributors", "store_contributors",
   "get_pull_requests", "store_pull_requests", "get_issues", "store_issues",
   "get_issue_comments", "store_issue_comments", "get_pr_comments",
   "store_pr_comments"}

LastPhases ==
  {"store_issues", "get_issue_comments", "store_issue_comments",
   "get_pr_comments", "store_pr_comments"}

C23_InOrder ==
  /\ [](pc \in RepositoryPhases => ri \in 1..Len(repositories))
  /\ [][ /\ (reqBit' # reqBit /\ lastReq'.req.kind # "repos")
            => (ri' = ri /\ lastReq'.req.name = repositories[ri]["name"])
         /\ (callBit' # callBit /\ lastCall'.op # "store_repositories")
            => lastCall'.repository_id = repositories[ri]["id"]
         /\ (pc = "get_repositories" /\ pc' = "store_repositories")
            => repositories' = fetched'
         /\ (pc = "store_repositories" /\ pc' = "get_commits") => ri' = 1
         /\ pc \in RepositoryPhases
            => /\ repositories' = repositories
               /\ ri' \in {ri, ri + 1}
               /\ ri' = ri + 1
                    => (pc \in LastPhases /\ pc' = "get_commits"
                          /\ callBit' # callBit /\ lastCall'.failAt = 0)
       ]_vars

C23_Witness ==
  /\ pc = "store_issues" /\ ri = 2 /\ runs = 1 /\ changes = 0
  /\ repositories = Sources[src].repos /\ Len(repositories) = 2
  /\ lastReq.req.kind = "issues" /\ lastReq.req.name = repositories[2]["name"]
  /\ Len(db["commits"]) = 3 /\ NothingOf(repositories[2]["id"])

\* C24: a run with include_comments false sends no comment request, makes
\* no store_comments call and leaves the comments collection as it was; its
\* repositories, commits, contributors, pull requests and issues are stored
\* as a run with comments enabled stores them.
CommentKinds == {"icomments", "pcomments"}

C24_CommentsDisabled ==
  /\ []((pc = "done" /\ ~include_comments /\ changes = 0 /\ ~swallowed)
          => \A c \in Collections \ {"comments"} :
               DocSet(db[c]) = DocSet(CleanRun(Sources[src], TRUE)[c]))
  /\ [][ ~include_comments
           => /\ reqBit' # reqBit => lastReq'.req.kind \notin CommentKinds
              /\ callBit' # callBit => lastCall'.op # "store_comments"
              /\ db'["comments"] = db["comments"]
              /\ pc' \notin {"get_issue_comments", "store_issue_comments",
                            "get_pr_comments", "store_pr_comments"}
       ]_vars

C24_Witness ==
  /\ pc = "done" /\ ~include_comments /\ ~aborted /\ changes = 0 /\ ~swallowed
  /\ Len(db["issues"]) = 2 /\ Len(db["pull_requests"]) = 1 /\ Len(db["commits"]) = 3
  /\ Len(Sources[src].icomments) = 2 /\ Len(Sources[src].pcomments) = 1
  /\ db["comments"] = <<>>

\* C25: HTTP 409 answered to a page after the first of the commit walk ends
\* the walk without an error; the walk returns the commits of the earlier
\* pages, and store_commits stores that shortened list as any other list
\* while the run goes on.
C25_TruncatedCommits ==
  [][ /\ (pc = "get_commits" /\ page > 1 /\ reqBit' # reqBit /\ lastReq'.status = 409)
         => (pc' = "store_commits" /\ fetched' = acc /\ Len(fetched') >= 1
               /\ aborted' = aborted /\ ri' = ri /\ db' = db)
      /\ (pc = "store_commits" /\ lastReq.status = 409 /\ lastReq.req.page > 1
            /\ callBit' # callBit /\ lastCall'.failAt = 0)
         => (pc' = "get_contributors" /\ lastCall'.batch = fetched
               /\ Len(lastCall'.ids) = Len(fetched) /\ aborted' = aborted
               /\ \A i \in 1..Len(fetched) :
                    \E j \in 1..Len(db'["commits"]) :
                      /\ db'["commits"][j]["sha"] = fetched[i]["sha"]
                      /\ db'["commits"][j]["repository_id"] = repositories[ri]["id"])
    ]_vars

C25_Witness ==
  /\ pc = "get_contributors" /\ ~aborted /\ runs = 1 /\ changes = 0
  /\ lastReq.req.kind = "commits" /\ lastReq.status = 409 /\ lastReq.req.page = 2
  /\ lastCall.op = "store_commits" /\ Len(lastCall.ids) = PerPage
  /\ Len(db["commits"]) = PerPage
  /\ Len(Sources[src].commits[repositories[ri]["name"]]) > PerPage

\* C26: after a response without rate-limit headers remaining is 0 and
\* reset_at is one hour after the time of the response, and the next fetch
\* sends its request no earlier than that reset time.
NoHeaders(r) ==
  /\ r.req.kind # "none" /\ r.status # TransportFailure
  /\ ~r.hdr.has_remaining /\ ~r.hdr.has_reset

C26_MissingHeaders ==
  /\ [](NoHeaders(lastReq)
          => /\ rate_limit_remaining = 0
             /\ rate_limit_reset = lastReq.sentAt + HourSecs)
  /\ [][ (NoHeaders(lastReq) /\ reqBit' # reqBit)
           => /\ lastReq'.startRemaining = 0
              /\ lastReq'.sentAt >= lastReq.sentAt + HourSecs
              /\ lastReq'.sentAt = Max(lastReq'.startNow, lastReq.sentAt + HourSecs)
              /\ now' >= lastReq.sentAt + HourSecs
       ]_vars

C26_Witness ==
  /\ lastReq.req.kind # "none" /\ calls = 2
  /\ lastReq.startRemaining = 0 /\ lastReq.startNow < 1 + HourSecs
  /\ lastReq.startReset = 1 + HourSecs /\ lastReq.sentAt = 1 + HourSecs

\* C27: issue-comment requests are sent for the numbers store_issues
\* returned, one request per number and in that order, never for a record
\* carrying the pull_request marker; pull request comment requests are sent
\* for the numbers store_pull_requests returned, one request per number.
MarkedNumbers(s, name) ==
  { s.issues[name][i]["number"] :
      i \in { j \in 1..Len(s.issues[name]) : Has(s.issues[name][j], "pull_request") } }

LeavesRepo == pc' \in {"get_commits", "done"}

C27_CommentRequests ==
  [][ /\ (reqBit' # reqBit /\ lastReq'.req.kind = "icomments")
         => /\ k \in 1..Len(issue_ids) /\ k' = k
            /\ lastReq'.req.number = issue_ids[k]
            /\ lastReq'.req.number \notin MarkedNumbers(Sources[src], lastReq'.req.name)
      /\ (reqBit' # reqBit /\ lastReq'.req.kind = "pcomments")
         => /\ k \in 1..Len(pr_ids) /\ k' = k
            /\ lastReq'.req.number = pr_ids[k]
      /\ (pc = "store_issues" /\ callBit' # callBit /\ lastCall'.failAt = 0)
         => /\ lastCall'.ids = UnmarkedNumbers(fetched)
            /\ pc' = "get_issue_comments" => (k' = 1 /\ issue_ids' = lastCall'.ids)
            /\ pc' = "get_pr_comments" => (k' = 1 /\ lastCall'.ids = <<>>)
            /\ (LeavesRepo /\ include_comments) => (lastCall'.ids = <<>> /\ pr_ids = <<>>)
      /\ (pc = "store_issue_comments" /\ callBit' # callBit /\ lastCall'.failAt = 0)
         => /\ pc' = "get_issue_comments" <=> k < Len(issue_ids)
            /\ pc' = "get_issue_comments" => (k' = k + 1 /\ issue_ids' = issue_ids)
            /\ pc' = "get_pr_comments" => (k' = 1 /\ pr_ids' = pr_ids)
            /\ LeavesRepo => pr_ids = <<>>
      /\ (pc = "store_pr_comments" /\ callBit' # callBit /\ lastCall'.failAt = 0)
         => /\ pc' = "get_pr_comments" <=> k < Len(pr_ids)
            /\ pc' = "get_pr_comments" => (k' = k + 1 /\ pr_ids' = pr_ids)
    ]_vars

C27_Witness ==
  /\ pc = "get_pr_comments" /\ k = 1 /\ ~aborted
  /\ issue_ids = << 1 >> /\ pr_ids = << 2 >>
  /\ lastReq.req.kind = "icomments" /\ lastReq.req.number = 1
  /\ 2 \in MarkedNumbers(Sources[src], repositories[ri]["name"])
  /\ lastCall.op = "store_comments" /\ lastCall.issue_id = 1

====
